---- MODULE Spec2Model ----
(***************************************************************************)
(* Model of the passkey ceremony orchestrator (WebAuthnController), the    *)
(* OTP fallback (OTPController), the challenge, credential, user and       *)
(* security event models they call, and the credential identifier          *)
(* canonicalization helper.                                                *)
(*                                                                         *)
(* Strings that the code inspects character by character (credential       *)
(* identifiers) are sequences of ASCII codes; byte buffers are sequences   *)
(* of numbers 0..255.                                                      *)
(***************************************************************************)
EXTENDS Integers, Sequences, FiniteSets, Bags, TLC

(***************************************************************************)
(* base64url, as Buffer.from(s, 'base64url') / isoBase64URL compute it     *)
(***************************************************************************)

\* The base64url alphabet: A-Z a-z 0-9 - _  (ASCII codes, value = index - 1).
B64Chars ==
    [i \in 1..26 |-> 64 + i] \o [i \in 1..26 |-> 96 + i] \o
    [i \in 1..10 |-> 47 + i] \o <<45, 95>>

\* /^[A-Za-z0-9_-]+$/ on the bytes of a decoded buffer read as text.
IsB64Code(c) == \E i \in 1..64 : B64Chars[i] = c

LooksLikeB64Text(bytes) ==
    /\ Len(bytes) > 0
    /\ \A i \in 1..Len(bytes) : IsB64Code(bytes[i])

Enc6(v) == B64Chars[v + 1]

Dec6(c) == (CHOOSE i \in 1..64 : B64Chars[i] = c) - 1

\* Buffer.from(s, 'base64url') on a string over the alphabet: every four
\* characters give three bytes; two left over give one byte, three give two,
\* one gives none (the incomplete bits are dropped).
RECURSIVE B64Decode(_)
B64Decode(s) ==
    IF Len(s) >= 4 THEN
        LET v == Dec6(s[1]) * 262144 + Dec6(s[2]) * 4096 + Dec6(s[3]) * 64 + Dec6(s[4])
        IN  << v \div 65536, (v \div 256) % 256, v % 256 >> \o B64Decode(SubSeq(s, 5, Len(s)))
    ELSE IF Len(s) = 3 THEN
        LET v == Dec6(s[1]) * 4096 + Dec6(s[2]) * 64 + Dec6(s[3])
        IN  << v \div 1024, (v \div 4) % 256 >>
    ELSE IF Len(s) = 2 THEN
        LET v == Dec6(s[1]) * 64 + Dec6(s[2])
        IN  << v \div 16 >>
    ELSE << >>

\* isoBase64URL.fromBuffer(buf): unpadded base64url of the bytes.
RECURSIVE B64Encode(_)
B64Encode(b) ==
    IF Len(b) >= 3 THEN
        LET v == b[1] * 65536 + b[2] * 256 + b[3]
        IN  << Enc6(v \div 262144), Enc6((v \div 4096) % 64),
               Enc6((v \div 64) % 64), Enc6(v % 64) >> \o B64Encode(SubSeq(b, 4, Len(b)))
    ELSE IF Len(b) = 2 THEN
        LET v == (b[1] * 256 + b[2]) * 4
        IN  << Enc6(v \div 4096), Enc6((v \div 64) % 64), Enc6(v % 64) >>
    ELSE IF Len(b) = 1 THEN
        LET v == b[1] * 16
        IN  << Enc6(v \div 64), Enc6(v % 64) >>
    ELSE << >>

\* The loop bound of canonicalizeCredentialId: for (let i = 0; i < 2; i++).
UnwrapLimit == 2

\* canonicalizeCredentialId(id).canonical: up to UnwrapLimit times, decode the
\* current string; when the bytes read as base64url text shorter than the
\* current string, they become the current string (one layer unwrapped);
\* otherwise the bytes are re-encoded and the loop stops.
RECURSIVE CanonLoop(_, _)
CanonLoop(current, i) ==
    IF i >= UnwrapLimit THEN current
    ELSE LET buf == B64Decode(current)
         IN  IF LooksLikeB64Text(buf) /\ Len(buf) < Len(current)
             THEN CanonLoop(buf, i + 1)
             ELSE B64Encode(buf)

canonicalizeCredentialId(id) == CanonLoop(id, 0)

(***************************************************************************)
(* Bounds of the model                                                     *)
(***************************************************************************)

\* Largest value of the clock (minutes) where expiry is not looked at.
MaxTime == 1

\* Number of challenges issued in one behaviour.
MaxChallenges == 2

\* Number of challenges issued in one behaviour where expiry is looked at.
MaxExpiryChallenges == 3

\* Number of ceremony completions (finish requests) in one behaviour.
MaxRequests == 2

\* Largest signature counter an authenticator presents.
MaxCounter == 2

\* Largest number of times a layer encodes the credential id of a response again.
MaxLadderWrap == 2

\* Number of startRegistration requests in one behaviour of the user
\* specification.
MaxStarts == 2

\* Number of OTP tickets sent in one behaviour.
MaxTickets == 1

\* Number of OTP verify requests in one behaviour, and how many of them
\* may be in flight at the same time.
MaxOtpRequests == 5

MaxOtpInFlight == 2

\* Number of OTP verify requests in one behaviour where expiry is looked at.
MaxOtpExpiryRequests == 2

\* Number of OTP verify requests in one behaviour of the user specification.
MaxUserOtpRequests == 2

(***************************************************************************)
(* Program constants and input domains                                     *)
(***************************************************************************)

\* createChallenge(..., expirationMinutes: number = 5)
ExpirationMinutes == 5

ReqIds == 1..MaxRequests

\* The ids nanoid() hands out to users, in order of creation.
UserIdPool == <<"u1", "u2", "u3", "u4">>

NoUserId == ""

\* Raw credential ids of authenticators. RawA, RawC and RawD are not text.
\* The bytes of RawB are the text "-g", the base64url of RawA: what a layer
\* that encodes an already encoded id hands over as raw bytes.
RawA == <<250>>

RawB == <<45, 103>>

RawC == <<251>>

RawD == <<252>>

NoCred == [id |-> <<>>, userId |-> NoUserId, publicKey |-> <<>>, counter |-> 0, useCount |-> 0]

\* The id of no challenge (findOne's null).
NoChallenge == 0

IdleReq ==
    [op |-> "none", pc |-> "idle", challenge |-> NoChallenge, credId |-> <<>>,
     key |-> <<>>, userHandle |-> NoUserId, counter |-> 0, sig |-> "good",
     userId |-> NoUserId, record |-> NoCred, updateId |-> <<>>,
     lookupMethod |-> "none", found |-> NoChallenge, newCounter |-> 0,
     counterUpdated |-> FALSE, markResult |-> "none", verdict |-> "none", result |-> "none",
     startedAfter |-> {}, lookupAt |-> 0, username |-> ""]

StartIds == 1..MaxStarts

IdleStart ==
    [pc |-> "idle", username |-> "", email |-> "", userId |-> NoUserId, result |-> "none"]

\* const expiresAt = new Date(Date.now() + 5 * 60 * 1000), and the delay of
\* the setTimeout of storeOTP, in minutes.
OtpExpirationMinutes == 5

\* maxAttempts: 3
OtpMaxAttempts == 3

\* Math.floor(100000 + Math.random() * 900000).toString(), two of the values.
Codes == {"123456", "654321"}

\* The id of no ticket, and otpStore.get's undefined.
NoTicketId == 0

NoTicket ==
    [id |-> NoTicketId, username |-> "", email |-> "", userId |-> NoUserId,
     identifier |-> "", otp |-> "", method |-> "", type |-> "none", attempts |-> 0,
     maxAttempts |-> 0, expiresAt |-> 0]

OtpReqIds == 1..MaxOtpRequests

\* A verify request: the ticket id, code and target of the request body, the
\* ticket object the handler read, the outcome of the comparison, the user,
\* the event logged and the response.
IdleOtpReq ==
    [op |-> "none", pc |-> "idle", otpId |-> NoTicketId, otp |-> "", username |-> "",
     otpData |-> NoTicket, matched |-> "none", userId |-> NoUserId,
     event |-> "none", result |-> "none"]

VARIABLES
    now,          \* the clock, new Date() / Date.now(), in minutes
    users,        \* the users collection
    credentials,  \* the credentials collection
    challenges,   \* the challenges collection
    issued,       \* number of challenges created so far (source of fresh ids)
    reqs,         \* the finish requests: inputs, position and local variables
    canonIn,      \* canonicalization: the identifier string handed in
    canonStage,   \* canonicalization: how often the function was applied
    canonOut,     \* canonicalization: the results of the applications
    regStarts,    \* the startRegistration requests in flight: inputs, position, locals
    startAuthResult, \* the response of the latest startAuthentication request
    startAuthOptions, \* the allowCredentials of the options of that response
    otpStore,     \* OTPController.otpStore: the tickets, by id
    otpTimers,    \* the pending setTimeout callbacks of storeOTP
    otpIssued,    \* number of tickets created so far (source of fresh ids)
    otpReqs,      \* the OTP verify requests: inputs, position and local variables
    securityEvents \* the securityEvents collection: the events logged, with their number

canonVars == <<canonIn, canonStage, canonOut>>

startVars == <<regStarts, startAuthResult, startAuthOptions>>

otpVars == <<otpStore, otpTimers, otpIssued, otpReqs>>

vars == <<now, users, credentials, challenges, issued, reqs, canonVars, startVars, otpVars,
          securityEvents>>

(***************************************************************************)
(* UserModel                                                               *)
(***************************************************************************)

NoUser ==
    [id |-> NoUserId, username |-> "", email |-> "", passkeyRegistrations |-> 0,
     successfulAuthentications |-> 0]

\* identifier.includes('@'), for the handles of the model.
EmailStrings == {"alice@example.com", "bob@example.com", "carol@example.com"}

IncludesAt(identifier) == identifier \in EmailStrings

\* The first document of a collection (a sequence, in insertion order) that
\* satisfies the filter, or the absent value: collection.findOne(filter).
FindOne(coll, Matches(_), absent) ==
    IF \E i \in 1..Len(coll) : Matches(coll[i])
    THEN coll[CHOOSE i \in 1..Len(coll) :
                  Matches(coll[i]) /\ \A j \in 1..(i - 1) : ~Matches(coll[j])]
    ELSE absent

findByUsername(username) ==
    LET Matches(u) == u.username = username IN FindOne(users, Matches, NoUser)

findByEmail(email) ==
    LET Matches(u) == u.email = email IN FindOne(users, Matches, NoUser)

findByUsernameOrEmail(identifier) ==
    IF IncludesAt(identifier) THEN findByEmail(identifier) ELSE findByUsername(identifier)

findUserById(id) ==
    LET Matches(u) == u.id = id IN FindOne(users, Matches, NoUser)

\* The document createUser inserts; absent email is the empty string.
NewUser(username, email) ==
    [id |-> UserIdPool[Len(users) + 1], username |-> username, email |-> email,
     passkeyRegistrations |-> 0, successfulAuthentications |-> 0]

\* The unique index on users.username alone.
UserIndexRefusesUsername(username, email) ==
    \E i \in 1..Len(users) : users[i].username = username

\* The unique indexes on users.username and (sparse) users.email refuse the insert.
UserIndexRefuses(username, email) ==
    \E i \in 1..Len(users) :
        \/ users[i].username = username
        \/ email # "" /\ users[i].email = email

incrementPasskeyRegistrations(id) ==
    [i \in 1..Len(users) |->
        IF users[i].id = id
        THEN [users[i] EXCEPT !.passkeyRegistrations = @ + 1]
        ELSE users[i]]

incrementSuccessfulAuthentications(id) ==
    [i \in 1..Len(users) |->
        IF users[i].id = id
        THEN [users[i] EXCEPT !.successfulAuthentications = @ + 1]
        ELSE users[i]]

(***************************************************************************)
(* ChallengeModel                                                          *)
(***************************************************************************)

\* The document createChallenge inserts. The random challenge value and the
\* nanoid id are both fresh; the model uses one fresh number for the two.
NewChallenge(type, userId) ==
    [id |-> issued + 1, userId |-> userId, type |-> type, createdAt |-> now,
     expiresAt |-> now + ExpirationMinutes, used |-> FALSE]

\* The query without its expiresAt condition: a lookup that leaves expiry
\* to the purge.
MatchesValidQueryNoExpiry(c, type, userId) ==
    /\ c.type = type
    /\ c.used = FALSE
    /\ userId # NoUserId => c.userId = userId

\* The query without its used condition.
MatchesValidQueryNoUsed(c, type, userId) ==
    /\ c.type = type
    /\ c.expiresAt > now
    /\ userId # NoUserId => c.userId = userId

\* The query of findValidChallenge: { type, used: false, expiresAt: { $gt: now } },
\* with userId added when a (non-empty) userId is given.
MatchesValidQuery(c, type, userId) ==
    /\ c.type = type
    /\ c.used = FALSE
    /\ c.expiresAt > now
    /\ userId # NoUserId => c.userId = userId

\* findOne(query, { sort: { createdAt: -1 } }): the documents findValidChallenge
\* may return, those of the latest createdAt among the matches (one of them
\* when several were created at the same time); empty when it returns null.
findValidChallenge(type, userId) ==
    {c \in challenges :
        /\ MatchesValidQuery(c, type, userId)
        /\ \A d \in challenges :
              MatchesValidQuery(d, type, userId) => d.createdAt <= c.createdAt}

\* updateOne({ id }, { $set: { used: true } }) on the collection.
SetUsed(id) ==
    {IF c.id = id THEN [c EXCEPT !.used = TRUE] ELSE c : c \in challenges}

\* result.matchedCount > 0: the filter matched a document, modified or not.
MarkMatched(id) == \E c \in challenges : c.id = id

\* markChallengeAsUsed's return value, result.modifiedCount > 0: the update
\* modified a document, which a $set of the value already stored does not.
MarkModified(id) == \E c \in challenges : c.id = id /\ c.used = FALSE

\* deleteMany({ expiresAt: { $lt: now } })
cleanupExpiredChallenges == {c \in challenges : ~(c.expiresAt < now)}

(***************************************************************************)
(* CredentialModel                                                         *)
(***************************************************************************)

findById(id) ==
    LET Matches(c) == c.id = id IN FindOne(credentials, Matches, NoCred)

\* find({ userId }).toArray(): the user's credentials in insertion order.
findByUserId(userId) == SelectSeq(credentials, LAMBDA c : c.userId = userId)

\* updateOne({ id }, { $set: { counter: newCounter, lastUsedAt }, $inc: { useCount: 1 } })
updateCounter(id, newCounter) ==
    [i \in 1..Len(credentials) |->
        IF credentials[i].id = id
        THEN [credentials[i] EXCEPT !.counter = newCounter, !.useCount = @ + 1]
        ELSE credentials[i]]

(***************************************************************************)
(* SecurityEventModel                                                      *)
(***************************************************************************)

\* The document logEvent builds: the type, the user ('' when none is given) and
\* the severity. The fresh id, the timestamp, the payload, the address and the
\* agent are left out; the collection keeps how many documents are alike.
NewEvent(eventType, userId, severity) ==
    [eventType |-> eventType, userId |-> userId, severity |-> severity]

\* logEvent(eventType, eventData, userId, ipAddress, userAgent, severity):
\* insertOne(event); the collection after the call.
logEvent(eventType, userId, severity) ==
    securityEvents (+) SetToBag({NewEvent(eventType, userId, severity)})

(***************************************************************************)
(* The external verifier, as the controller sees it                        *)
(***************************************************************************)

\* verifyRegistrationResponse({ response, expectedChallenge, ... }): raises an
\* error when the response was not made for the expected challenge, returns
\* verified: false for a response that does not verify, else verified: true.
VerifyRegistration(resp, expectedChallenge) ==
    IF resp.challenge # expectedChallenge THEN "throws"
    ELSE IF resp.sig # "good" THEN "notVerified"
    ELSE "verified"

\* The verifier's counter rule against the counter it is handed
\* (authenticator.counter): a counter that did not advance is an error,
\* unless both are zero.
CounterAdvanced(stored, new) == ~((new > 0 \/ stored > 0) /\ new <= stored)

\* verifyAuthenticationResponse({ response, expectedChallenge, authenticator:
\* { credentialID, credentialPublicKey, counter } }): raises an error for another
\* challenge or a counter that did not advance, returns verified: false when
\* the signature is not one of the stored public key.
VerifyAuthentication(resp, expectedChallenge, authenticator) ==
    IF resp.challenge # expectedChallenge THEN "throws"
    ELSE IF ~CounterAdvanced(authenticator.counter, resp.counter) THEN "throws"
    ELSE IF resp.key # authenticator.publicKey THEN "notVerified"
    ELSE "verified"

(***************************************************************************)
(* WebAuthnController                                                      *)
(***************************************************************************)

\* startRegistration(username, email): find or create the user, store a
\* registration challenge bound to the user. A request that ends in an error
\* (409 email in use, or the insert refused by a unique index) changes nothing.
StartRegistration(username, email) ==
    LET existing == findByUsernameOrEmail(username)
        conflict == existing = NoUser /\ email # "" /\ findByEmail(email) # NoUser
        user     == IF existing = NoUser THEN NewUser(username, email) ELSE existing
    IN  /\ ~conflict
        /\ existing = NoUser => ~UserIndexRefuses(username, email) /\ Len(users) < Len(UserIdPool)
        /\ users' = IF existing = NoUser THEN Append(users, user) ELSE users
        /\ challenges' = challenges \cup {NewChallenge("registration", user.id)}
        /\ issued' = issued + 1
        /\ securityEvents' = logEvent("registration_start", user.id, "low")
        /\ UNCHANGED <<now, credentials, reqs, canonVars, startVars, otpVars>>

\* A start that does not look at the number of credentials.
HasNoPasskeysNever(user) == FALSE

\* userCredentials = await findByUserId(user.id); userCredentials.length === 0
HasNoPasskeys(user) == Len(findByUserId(user.id)) = 0

\* A start that refuses every handle without credentials, the handles of no
\* user included.
RefusesStartUnknown(username, user) == username # "" /\ HasNoPasskeys(user)

\* if (username) { user = ...; if (!user) { go on } else if (userCredentials.length
\* === 0) throw 400 }: the request is refused.
RefusesStart(username, user) == username # "" /\ user # NoUser /\ HasNoPasskeys(user)

\* allowCredentials = userCredentials.map(cred => ({ id: cred.id, ... })) for a
\* user found, undefined (here the empty sequence) otherwise: the options are
\* scoped to these ids when there are any, else unscoped.
AllowCredentials(user) ==
    IF user = NoUser THEN << >>
    ELSE [i \in 1..Len(findByUserId(user.id)) |-> findByUserId(user.id)[i].id]

\* startAuthentication(username): with a handle that resolves to a user without
\* credentials the request fails (400) and stores nothing; otherwise it answers
\* with options and stores an authentication challenge, bound to the user when
\* the handle resolved.
StartAuthentication(username) ==
    LET user == IF username # "" THEN findByUsernameOrEmail(username) ELSE NoUser
    IN  /\ IF RefusesStart(username, user)
           THEN /\ startAuthResult' = "NoCredentialsEnrolled"
                /\ startAuthOptions' = << >>
                /\ UNCHANGED <<challenges, issued, securityEvents>>
           ELSE /\ challenges' = challenges \cup {NewChallenge("authentication", user.id)}
                /\ issued' = issued + 1
                /\ securityEvents' = logEvent("authentication_start", user.id, "low")
                /\ startAuthResult' = "ok"
                /\ startAuthOptions' = AllowCredentials(user)
        /\ UNCHANGED <<now, users, credentials, reqs, canonVars, regStarts, otpVars>>

\* startRegistration without its check of the owner of the email.
EmailInUseNever(email) == FALSE

\* if (email) { emailOwner = await findByEmail(email); if (emailOwner) throw 409 }
EmailInUse(email) == email # "" /\ findByEmail(email) # NoUser

\* startRegistration as a request in flight, up to createUser: the reads
\* findByUsernameOrEmail(username) and findByEmail(email). With a user found
\* the request stores the registration challenge and answers; with the email
\* owned by a user it answers 409; otherwise createUser follows.
StartRegistrationResolve(s, username, email) ==
    LET existing == findByUsernameOrEmail(username)
        req      == [regStarts[s] EXCEPT !.username = username, !.email = email]
    IN  /\ regStarts[s].pc = "idle"
        /\ username # ""
        /\ IF existing # NoUser
           THEN /\ challenges' = challenges \cup {NewChallenge("registration", existing.id)}
                /\ issued' = issued + 1
                /\ securityEvents' = logEvent("registration_start", existing.id, "low")
                /\ regStarts' = [regStarts EXCEPT ![s] =
                      [req EXCEPT !.pc = "done", !.userId = existing.id, !.result = "ok"]]
           ELSE /\ regStarts' = [regStarts EXCEPT ![s] =
                      IF EmailInUse(email)
                      THEN [req EXCEPT !.pc = "done", !.result = "Conflict"]
                      ELSE [req EXCEPT !.pc = "createUser"]]
                /\ UNCHANGED <<challenges, issued, securityEvents>>
        /\ UNCHANGED <<now, users, credentials, reqs, canonVars, startAuthResult, startAuthOptions, otpVars>>

\* startRegistration: createUser(username, displayName, email), refused by a
\* unique index (the error surfaces as 500), then the registration challenge.
StartRegistrationCreateUser(s) ==
    LET user == NewUser(regStarts[s].username, regStarts[s].email)
    IN  /\ regStarts[s].pc = "createUser"
        /\ Len(users) < Len(UserIdPool)
        /\ IF UserIndexRefuses(regStarts[s].username, regStarts[s].email)
           THEN /\ regStarts' = [regStarts EXCEPT ![s].pc = "done", ![s].result = "Internal"]
                /\ UNCHANGED <<users, challenges, issued, securityEvents>>
           ELSE /\ users' = Append(users, user)
                /\ challenges' = challenges \cup {NewChallenge("registration", user.id)}
                /\ issued' = issued + 1
                /\ securityEvents' = logEvent("registration_start", user.id, "low")
                /\ regStarts' = [regStarts EXCEPT ![s].pc = "done", ![s].userId = user.id,
                                                  ![s].result = "ok"]
        /\ UNCHANGED <<now, credentials, reqs, canonVars, startAuthResult, startAuthOptions, otpVars>>

Finish(r, result) == [reqs EXCEPT ![r].pc = "done", ![r].result = result]

\* The requests that were answered already (kept with a request when it
\* arrives, to tell a later request from a concurrent one).
Completed == {q \in DOMAIN reqs : reqs[q].pc = "done"}

\* finishRegistration, up to the verification: the user by username, the
\* user's latest valid registration challenge, the verifier's verdict.
FinishRegistrationVerify(r, username, resp) ==
    LET user  == findByUsername(username)
        cands == findValidChallenge("registration", user.id)
        req   == [reqs[r] EXCEPT !.op = "finishRegistration", !.challenge = resp.challenge,
                                 !.key = resp.rawId, !.sig = resp.sig, !.userId = user.id,
                                 !.startedAfter = Completed, !.lookupAt = now,
                                 !.username = username]
    IN  /\ reqs[r].pc = "idle"
        /\ IF user = NoUser
           THEN /\ reqs' = [reqs EXCEPT ![r] =
                      [req EXCEPT !.pc = "done", !.result = "UserNotFound"]]
                /\ UNCHANGED securityEvents
           ELSE IF cands = {}
           THEN /\ reqs' = [reqs EXCEPT ![r] =
                      [req EXCEPT !.pc = "done", !.result = "ChallengeInvalid"]]
                /\ UNCHANGED securityEvents
           ELSE \E c \in cands :
                  /\ reqs' = [reqs EXCEPT ![r] =
                       IF VerifyRegistration(resp, c.id) = "verified"
                       THEN [req EXCEPT !.pc = "createCredential", !.found = c.id]
                       ELSE [req EXCEPT !.pc = "done", !.found = c.id,
                                        !.verdict = VerifyRegistration(resp, c.id),
                                        !.result = "VerificationFailed"]]
                  /\ securityEvents' =
                       IF VerifyRegistration(resp, c.id) = "throws"
                       THEN logEvent("registration_failed", user.id, "medium")
                       ELSE securityEvents
        /\ UNCHANGED <<now, users, credentials, challenges, issued, canonVars, startVars, otpVars>>

\* finishRegistration: createCredential with the base64url of the raw id; the
\* unique index on credentials.id refuses a second document with that id.
FinishRegistrationCreate(r) ==
    LET canonicalId == B64Encode(reqs[r].key)
    IN  /\ reqs[r].op = "finishRegistration"
        /\ reqs[r].pc = "createCredential"
        /\ IF findById(canonicalId) # NoCred
           THEN /\ reqs' = Finish(r, "Internal")
                /\ UNCHANGED credentials
           ELSE /\ credentials' = Append(credentials,
                      [id |-> canonicalId, userId |-> reqs[r].userId,
                       publicKey |-> reqs[r].key, counter |-> 0, useCount |-> 0])
                /\ reqs' = [reqs EXCEPT ![r].pc = "markUsed", ![r].credId = canonicalId]
        /\ UNCHANGED <<now, users, challenges, issued, canonVars, securityEvents, startVars, otpVars>>

\* await this.challengeModel.markChallengeAsUsed(challenge.id), in both finish
\* handlers; the returned boolean is not looked at.
MarkChallengeStep(r, op) ==
    /\ reqs[r].op = op
    /\ reqs[r].pc = "markUsed"
    /\ challenges' = SetUsed(reqs[r].found)
    /\ reqs' = [reqs EXCEPT ![r].pc = "respond",
                            ![r].markResult = IF MarkModified(reqs[r].found)
                                              THEN "true" ELSE "false"]
    /\ UNCHANGED <<now, users, credentials, issued, canonVars, securityEvents, startVars, otpVars>>

FinishRegistrationMark(r) == MarkChallengeStep(r, "finishRegistration")

\* finishRegistration: the user's metric, then the response { verified: true }.
FinishRegistrationRespond(r) ==
    /\ reqs[r].op = "finishRegistration"
    /\ reqs[r].pc = "respond"
    /\ users' = incrementPasskeyRegistrations(reqs[r].userId)
    /\ securityEvents' = logEvent("registration_success", reqs[r].userId, "low")
    /\ reqs' = Finish(r, "ok")
    /\ UNCHANGED <<now, credentials, challenges, issued, canonVars, startVars, otpVars>>

\* isoBase64URL.toBuffer(s), for strings over the alphabet.
toBuffer(s) == B64Decode(s)

\* The lookup ladder of finishAuthentication: the record it ends with and the
\* step that found it. (1) findById(credentialId); (2) findById of the
\* canonical form of credentialId, when that differs; (3) the first credential
\* of the user of the handle whose id is not canonical and whose canonical id
\* is credentialId; (4) the first credential of that user whose canonical id
\* decodes to the bytes credentialId decodes to.
ResolveCredential(credentialId, authUser) ==
    LET direct        == findById(credentialId)
        receivedCanon == canonicalizeCredentialId(credentialId)
        canonical     == IF receivedCanon # credentialId THEN findById(receivedCanon) ELSE NoCred
        userForScan   == IF authUser # NoUser THEN findByUserId(authUser.id) ELSE << >>
        ScanMatches(cred) ==
            /\ canonicalizeCredentialId(cred.id) # cred.id
            /\ canonicalizeCredentialId(cred.id) = credentialId
        scanned       == FindOne(userForScan, ScanMatches, NoCred)
        BytesMatch(cred) ==
            toBuffer(canonicalizeCredentialId(cred.id)) = toBuffer(credentialId)
        binary        == FindOne(userForScan, BytesMatch, NoCred)
    IN  IF direct # NoCred THEN [record |-> direct, method |-> "direct"]
        ELSE IF canonical # NoCred THEN [record |-> canonical, method |-> "canonical-received"]
        ELSE IF scanned # NoCred THEN [record |-> scanned, method |-> "user-scan-canonical"]
        ELSE IF binary # NoCred THEN [record |-> binary, method |-> "binary-match"]
        ELSE [record |-> NoCred, method |-> "none"]

\* The id credentialRecord.id holds after the migration block: the canonical
\* form of the stored id when that differs from the stored id and decodes to
\* the bytes of the canonical received id. The write of the block,
\* updateCredential(canonical, {}), sets no field of any document.
MigratedId(record, credentialId) ==
    LET storedCanon   == canonicalizeCredentialId(record.id)
        receivedCanon == canonicalizeCredentialId(credentialId)
        buffersMatch  == toBuffer(storedCanon) = toBuffer(receivedCanon)
    IN  IF storedCanon # record.id /\ buffersMatch THEN storedCanon ELSE record.id

\* finishAuthentication, up to the migration block: the user of the user
\* handle, the credential by the lookup ladder (404 when none is found).
FinishAuthenticationResolve(r, resp) ==
    LET authUser == IF resp.userHandle # NoUserId THEN findUserById(resp.userHandle) ELSE NoUser
        hit      == ResolveCredential(resp.credId, authUser)
        req      == [reqs[r] EXCEPT !.op = "finishAuthentication", !.challenge = resp.challenge,
                                    !.credId = resp.credId, !.key = resp.key,
                                    !.userHandle = resp.userHandle, !.counter = resp.counter,
                                    !.record = hit.record, !.lookupMethod = hit.method,
                                    !.startedAfter = Completed]
    IN  /\ reqs[r].pc = "idle"
        /\ reqs' = [reqs EXCEPT ![r] =
              IF hit.record = NoCred
              THEN [req EXCEPT !.pc = "done", !.result = "CredentialNotFound"]
              ELSE [req EXCEPT !.pc = "findChallenge", !.userId = hit.record.userId,
                               !.updateId = MigratedId(hit.record, resp.credId)]]
        /\ UNCHANGED <<now, users, credentials, challenges, issued, canonVars, securityEvents, startVars, otpVars>>

\* The userId argument of the challenge lookup of finishAuthentication:
\* findValidChallenge('authentication') is called without one.
AuthChallengeOwner(r) == NoUserId

\* finishAuthentication: the latest valid authentication challenge (400 when
\* there is none) and the verifier's verdict against it, the stored public
\* key and the counter of the record read by the lookup.
FinishAuthenticationVerify(r) ==
    LET cands == findValidChallenge("authentication", AuthChallengeOwner(r))
        resp  == [challenge |-> reqs[r].challenge, key |-> reqs[r].key,
                  counter |-> reqs[r].counter]
    IN  /\ reqs[r].op = "finishAuthentication"
        /\ reqs[r].pc = "findChallenge"
        /\ IF cands = {}
           THEN /\ reqs' = [reqs EXCEPT ![r].pc = "done", ![r].result = "ChallengeInvalid",
                                        ![r].lookupAt = now]
                /\ UNCHANGED securityEvents
           ELSE \E c \in cands :
                  /\ reqs' = [reqs EXCEPT ![r] =
                       IF VerifyAuthentication(resp, c.id, reqs[r].record) = "verified"
                       THEN [@ EXCEPT !.pc = "updateCounter", !.found = c.id,
                                      !.newCounter = resp.counter, !.lookupAt = now]
                       ELSE [@ EXCEPT !.pc = "done", !.found = c.id, !.lookupAt = now,
                                      !.verdict = VerifyAuthentication(resp, c.id, reqs[r].record),
                                      !.result = "VerificationFailed"]]
                  /\ securityEvents' =
                       IF VerifyAuthentication(resp, c.id, reqs[r].record) = "throws"
                       THEN logEvent("authentication_failed", reqs[r].record.userId, "medium")
                       ELSE securityEvents
        /\ UNCHANGED <<now, users, credentials, challenges, issued, canonVars, startVars, otpVars>>

\* await this.credentialModel.updateCounter(credentialRecord.id, newCounter);
\* the returned boolean is not looked at.
FinishAuthenticationUpdateCounter(r) ==
    /\ reqs[r].op = "finishAuthentication"
    /\ reqs[r].pc = "updateCounter"
    /\ credentials' = updateCounter(reqs[r].updateId, reqs[r].newCounter)
    /\ reqs' = [reqs EXCEPT ![r].pc = "markUsed",
                            ![r].counterUpdated = (findById(reqs[r].updateId) # NoCred)]
    /\ UNCHANGED <<now, users, challenges, issued, canonVars, securityEvents, startVars, otpVars>>

FinishAuthenticationMark(r) == MarkChallengeStep(r, "finishAuthentication")

\* finishAuthentication: the user's metric, then the response { verified: true }.
FinishAuthenticationRespond(r) ==
    /\ reqs[r].op = "finishAuthentication"
    /\ reqs[r].pc = "respond"
    /\ users' = incrementSuccessfulAuthentications(reqs[r].userId)
    /\ securityEvents' = logEvent("authentication_success", reqs[r].userId, "low")
    /\ reqs' = Finish(r, "ok")
    /\ UNCHANGED <<now, credentials, challenges, issued, canonVars, startVars, otpVars>>

(***************************************************************************)
(* OTPController                                                           *)
(***************************************************************************)

\* this.otpStore.get(id)
getOTP(id) ==
    IF \E t \in otpStore : t.id = id THEN CHOOSE t \in otpStore : t.id = id ELSE NoTicket

\* this.otpStore.set(id, data)
SetOTP(id, data) == {t \in otpStore : t.id # id} \cup {data}

\* A delete that leaves the ticket in the store.
DeleteKeepsTicket(id) == otpStore

\* this.otpStore.delete(id)
deleteOTP(id) == {t \in otpStore : t.id # id}

\* The callback storeOTP registers: setTimeout(() => delete(id), 5 * 60 * 1000).
NewTimer(id) == [id |-> id, at |-> now + OtpExpirationMinutes]

\* The pending callbacks once the ticket id is deleted: ids are never used
\* again, so a callback for a deleted ticket finds nothing to delete and is
\* left out.
TimersWithout(id) == {timer \in otpTimers : timer.id # id}

\* sendRegistrationOTP: a ticket for username || email with a random code,
\* stored with its timer. (A request refused by the validation stores nothing;
\* the mock notification service always reports the code as sent.)
SendRegistrationOTP(username, email, phoneNumber, method, otp) ==
    LET otpId   == otpIssued + 1
        otpData == [id |-> otpId, username |-> IF username # "" THEN username ELSE email,
                    email |-> email, userId |-> NoUserId, identifier |-> "", otp |-> otp,
                    method |-> method, type |-> "registration", attempts |-> 0,
                    maxAttempts |-> OtpMaxAttempts, expiresAt |-> now + OtpExpirationMinutes]
    IN  /\ ~((username = "" /\ email = "") \/ method = "")
        /\ method = "email" => email # ""
        /\ method = "sms" => phoneNumber # ""
        /\ otpStore' = SetOTP(otpId, otpData)
        /\ otpTimers' = otpTimers \cup {NewTimer(otpId)}
        /\ otpIssued' = otpIssued + 1
        /\ securityEvents' = logEvent("otp_sent", NoUserId, "low")
        /\ UNCHANGED <<now, users, credentials, challenges, issued, reqs, canonVars,
                       startVars, otpReqs>>

\* sendAuthenticationOTP: for the user of username || email (400 when there is
\* none), a ticket with the user's id and the identifier used, stored with its
\* timer before the code is sent.
SendAuthenticationOTP(username, email, phoneNumber, method, otp) ==
    LET identifier == IF username # "" THEN username ELSE email
        user       == findByUsernameOrEmail(identifier)
        otpId      == otpIssued + 1
        otpData    == [id |-> otpId, username |-> username, email |-> "",
                       userId |-> user.id, identifier |-> identifier, otp |-> otp,
                       method |-> method, type |-> "authentication", attempts |-> 0,
                       maxAttempts |-> OtpMaxAttempts,
                       expiresAt |-> now + OtpExpirationMinutes]
    IN  /\ ~((username = "" /\ email = "") \/ method = "")
        /\ user # NoUser
        /\ otpStore' = SetOTP(otpId, otpData)
        /\ otpTimers' = otpTimers \cup {NewTimer(otpId)}
        /\ otpIssued' = otpIssued + 1
        /\ securityEvents' = logEvent("auth_otp_sent", user.id, "low")
        /\ UNCHANGED <<now, users, credentials, challenges, issued, reqs, canonVars,
                       startVars, otpReqs>>

\* A verification that does not count the attempt.
AttemptNotCounted(otpData) == otpData

\* otpData.attempts++
CountAttempt(otpData) == [otpData EXCEPT !.attempts = @ + 1]

\* The guard on the attempts of a ticket that refuses the last attempt.
AttemptsExhaustedEarly(otpData) == otpData.attempts + 1 >= otpData.maxAttempts

\* The guard on the attempts of a ticket that lets one attempt too many through.
AttemptsExhaustedLate(otpData) == otpData.attempts > otpData.maxAttempts

\* if (otpData.attempts >= otpData.maxAttempts)
AttemptsExhausted(otpData) == otpData.attempts >= otpData.maxAttempts

\* A read of the ticket that leaves expiry to the timer.
IsExpiredNever(otpData) == FALSE

\* if (new Date() > otpData.expiresAt)
IsExpired(otpData) == now > otpData.expiresAt

\* The target the ticket was sent for: otpData.username in verifyRegistrationOTP,
\* (otpData as any).identifier ?? otpData.username in verifyAuthenticationOTP.
ExpectedIdentifier(otpData, op) ==
    IF op = "verifyRegistrationOTP" THEN otpData.username
    ELSE IF otpData.identifier # "" THEN otpData.identifier
    ELSE otpData.username

\* verifyRegistrationOTP / verifyAuthenticationOTP from the start to the first
\* await, which no other request interleaves with: the ticket read; 400 without
\* a ticket; an expired ticket deleted (400); a ticket with its attempts used up
\* deleted (429 after the event is logged); otherwise otpData.attempts++ on the
\* stored object, then the comparison of code and target: on a mismatch the
\* ticket is stored again (with a new timer) and the request fails (400 after
\* the event is logged), on a match the request goes on to the user.
OtpVerify(q, op, otpId, otp, username) ==
    LET otpData == getOTP(otpId)
        counted == CountAttempt(otpData)
        req     == [otpReqs[q] EXCEPT !.op = op, !.otpId = otpId, !.otp = otp,
                                      !.username = username]
    IN  /\ otpReqs[q].pc = "idle"
        /\ otpId # NoTicketId /\ otp # "" /\ username # ""
        /\ IF otpData = NoTicket
           THEN /\ otpReqs' = [otpReqs EXCEPT ![q] =
                      [req EXCEPT !.pc = "done", !.result = "TicketNotFound"]]
                /\ UNCHANGED <<otpStore, otpTimers>>
           ELSE IF IsExpired(otpData)
           THEN /\ otpStore' = deleteOTP(otpId)
                /\ otpReqs' = [otpReqs EXCEPT ![q] =
                      [req EXCEPT !.pc = "done", !.otpData = otpData, !.result = "Expired"]]
                /\ otpTimers' = TimersWithout(otpId)
           ELSE IF AttemptsExhausted(otpData)
           THEN /\ otpStore' = deleteOTP(otpId)
                /\ otpReqs' = [otpReqs EXCEPT ![q] =
                      [req EXCEPT !.pc = "logFailure", !.otpData = otpData,
                                  !.result = "MaxAttemptsExceeded"]]
                /\ otpTimers' = TimersWithout(otpId)
           ELSE IF otpData.otp # otp \/ ExpectedIdentifier(otpData, op) # username
           THEN /\ otpStore' = SetOTP(otpId, counted)
                /\ otpTimers' = otpTimers \cup {NewTimer(otpId)}
                /\ otpReqs' = [otpReqs EXCEPT ![q] =
                      [req EXCEPT !.pc = "logFailure", !.matched = "mismatch",
                                  !.otpData = counted, !.result = "CodeMismatch"]]
           ELSE /\ otpStore' = SetOTP(otpId, counted)
                /\ otpReqs' = [otpReqs EXCEPT ![q] =
                      [req EXCEPT !.pc = "findUser", !.matched = "match",
                                  !.otpData = counted]]
                /\ UNCHANGED otpTimers
        /\ UNCHANGED <<now, users, credentials, challenges, issued, reqs, canonVars, securityEvents,
                       startVars, otpIssued>>

\* logEvent('otp_max_attempts', ..., undefined, ..., 'medium') in
\* verifyRegistrationOTP, logEvent('auth_otp_max_attempts', ..., otpData.userId,
\* ..., 'high') in verifyAuthenticationOTP.
MaxAttemptsEvent(op, otpData) ==
    IF op = "verifyRegistrationOTP"
    THEN NewEvent("otp_max_attempts", NoUserId, "medium")
    ELSE NewEvent("auth_otp_max_attempts", otpData.userId, "high")

\* logEvent('otp_failed', ..., undefined, ..., 'low') in verifyRegistrationOTP,
\* logEvent('auth_otp_failed', ..., otpData.userId, ..., 'medium') in
\* verifyAuthenticationOTP.
MismatchEvent(op, otpData) ==
    IF op = "verifyRegistrationOTP"
    THEN NewEvent("otp_failed", NoUserId, "low")
    ELSE NewEvent("auth_otp_failed", otpData.userId, "medium")

\* await this.securityEventModel.logEvent(...) of a failed verification, then
\* the error is thrown.
OtpLogFailure(q) ==
    /\ otpReqs[q].pc = "logFailure"
    /\ LET event == IF otpReqs[q].result = "MaxAttemptsExceeded"
                    THEN MaxAttemptsEvent(otpReqs[q].op, otpReqs[q].otpData)
                    ELSE MismatchEvent(otpReqs[q].op, otpReqs[q].otpData)
       IN  securityEvents' = logEvent(event.eventType, event.userId, event.severity)
    /\ otpReqs' = [otpReqs EXCEPT ![q].pc = "done",
                                  ![q].event = IF otpReqs[q].result = "MaxAttemptsExceeded"
                                               THEN "max_attempts" ELSE "failed"]
    /\ UNCHANGED <<now, users, credentials, challenges, issued, reqs, canonVars,
                   startVars, otpStore, otpTimers, otpIssued>>

\* verifyRegistrationOTP: let user = await findByUsernameOrEmail(username)
OtpRegistrationFindUser(q) ==
    LET user == findByUsernameOrEmail(otpReqs[q].username)
    IN  /\ otpReqs[q].op = "verifyRegistrationOTP"
        /\ otpReqs[q].pc = "findUser"
        /\ otpReqs' = [otpReqs EXCEPT ![q].pc = IF user = NoUser THEN "createUser"
                                                ELSE "logSuccess",
                                      ![q].userId = user.id]
        /\ UNCHANGED <<now, users, credentials, challenges, issued, reqs, canonVars, securityEvents,
                       startVars, otpStore, otpTimers, otpIssued>>

\* verifyRegistrationOTP: user = await createUser(otpData.username, undefined,
\* otpData.email); an insert the unique indexes refuse fails the request (500)
\* and leaves the ticket.
OtpRegistrationCreateUser(q) ==
    LET user == NewUser(otpReqs[q].otpData.username, otpReqs[q].otpData.email)
    IN  /\ otpReqs[q].op = "verifyRegistrationOTP"
        /\ otpReqs[q].pc = "createUser"
        /\ Len(users) < Len(UserIdPool)
        /\ IF UserIndexRefuses(user.username, user.email)
           THEN /\ otpReqs' = [otpReqs EXCEPT ![q].pc = "done", ![q].result = "Internal"]
                /\ UNCHANGED users
           ELSE /\ users' = Append(users, user)
                /\ otpReqs' = [otpReqs EXCEPT ![q].pc = "logSuccess", ![q].userId = user.id]
        /\ UNCHANGED <<now, credentials, challenges, issued, reqs, canonVars, securityEvents,
                       startVars, otpStore, otpTimers, otpIssued>>

\* verifyAuthenticationOTP: const user = await findById(otpData.userId); 404
\* when there is none.
OtpAuthenticationFindUser(q) ==
    LET user == findUserById(otpReqs[q].otpData.userId)
    IN  /\ otpReqs[q].op = "verifyAuthenticationOTP"
        /\ otpReqs[q].pc = "findUser"
        /\ otpReqs' = [otpReqs EXCEPT ![q] =
              IF user = NoUser
              THEN [@ EXCEPT !.pc = "done", !.result = "UserNotFound"]
              ELSE [@ EXCEPT !.pc = "increment", !.userId = user.id]]
        /\ UNCHANGED <<now, users, credentials, challenges, issued, reqs, canonVars, securityEvents,
                       startVars, otpStore, otpTimers, otpIssued>>

\* verifyAuthenticationOTP: await incrementSuccessfulAuthentications(user.id)
OtpAuthenticationIncrement(q) ==
    /\ otpReqs[q].op = "verifyAuthenticationOTP"
    /\ otpReqs[q].pc = "increment"
    /\ users' = incrementSuccessfulAuthentications(otpReqs[q].userId)
    /\ otpReqs' = [otpReqs EXCEPT ![q].pc = "logSuccess"]
    /\ UNCHANGED <<now, credentials, challenges, issued, reqs, canonVars, securityEvents,
                   startVars, otpStore, otpTimers, otpIssued>>

\* Both verify handlers, after the success event is logged: deleteOTP(otpId),
\* then the response { verified: true }.
OtpComplete(q) ==
    /\ otpReqs[q].pc = "logSuccess"
    /\ otpStore' = deleteOTP(otpReqs[q].otpId)
    /\ otpTimers' = TimersWithout(otpReqs[q].otpId)
    /\ otpReqs' = [otpReqs EXCEPT ![q].pc = "done", ![q].event = "success",
                                  ![q].result = "ok"]
    /\ securityEvents' = logEvent(IF otpReqs[q].op = "verifyRegistrationOTP"
                                  THEN "otp_registration_success" ELSE "auth_otp_success",
                                  otpReqs[q].userId, "low")
    /\ UNCHANGED <<now, users, credentials, challenges, issued, reqs, canonVars,
                   startVars, otpIssued>>

\* A callback of storeOTP runs, five minutes or more after it was registered:
\* it deletes whatever ticket the store holds under the id.
OtpTimeout(timer) ==
    /\ timer \in otpTimers
    /\ now >= timer.at
    /\ otpStore' = deleteOTP(timer.id)
    /\ otpTimers' = TimersWithout(timer.id)
    /\ UNCHANGED <<now, users, credentials, challenges, issued, reqs, canonVars, securityEvents,
                   startVars, otpIssued, otpReqs>>

(***************************************************************************)
(* Environment: the clock and the purge of expired challenges              *)
(***************************************************************************)

Tick ==
    /\ now' = now + 1
    /\ UNCHANGED <<users, credentials, challenges, issued, reqs, canonVars, securityEvents, startVars, otpVars>>

\* ChallengeModel.cleanupExpiredChallenges (and the TTL index on expiresAt).
CleanupExpiredChallenges ==
    /\ cleanupExpiredChallenges # challenges
    /\ challenges' = cleanupExpiredChallenges
    /\ UNCHANGED <<now, users, credentials, issued, reqs, canonVars, securityEvents, startVars, otpVars>>

(***************************************************************************)
(* Specification of the ceremonies                                         *)
(***************************************************************************)

\* The users and credentials collections after alice and bob each completed
\* one registration ceremony, with the authenticators ra and rb.
Registered(ra, rb) ==
    /\ users = << [id |-> "u1", username |-> "alice", email |-> "",
                   passkeyRegistrations |-> 1, successfulAuthentications |-> 0],
                  [id |-> "u2", username |-> "bob", email |-> "",
                   passkeyRegistrations |-> 1, successfulAuthentications |-> 0] >>
    /\ credentials = << [id |-> B64Encode(ra), userId |-> "u1", publicKey |-> ra,
                         counter |-> 0, useCount |-> 0],
                        [id |-> B64Encode(rb), userId |-> "u2", publicKey |-> rb,
                         counter |-> 0, useCount |-> 0] >>

CanonIdle ==
    /\ canonIn = << >>
    /\ canonStage = 0
    /\ canonOut = << >>

\* No startRegistration request in flight, no startAuthentication answered.
StartIdle ==
    /\ regStarts = [s \in StartIds |-> IdleStart]
    /\ startAuthResult = "none"
    /\ startAuthOptions = << >>

\* The OTPController after construction: new Map(), no request.
OtpIdle ==
    /\ otpStore = {}
    /\ otpTimers = {}
    /\ otpIssued = 0
    /\ otpReqs = [q \in OtpReqIds |-> IdleOtpReq]

\* The securityEvents collection without a document.
NoEvents == securityEvents = EmptyBag

\* The user id an authenticator returns as user handle for a credential.
HandleOf(key) ==
    LET Matches(c) == c.publicKey = key IN FindOne(credentials, Matches, NoCred).userId

RegistrationResponses(raws, sigs) ==
    [challenge : {c.id : c \in challenges}, rawId : raws, sig : sigs]

\* Responses of the authenticators `keys` to stored challenges: the credential id
\* as the base64url of the raw id, encoded `depth` more times on the way; with
\* or without the user handle.
RECURSIVE Wrap(_, _)
Wrap(s, depth) == IF depth = 0 THEN s ELSE Wrap(B64Encode(s), depth - 1)

AuthenticationResponses(keys, depths, handles, counters) ==
    {[challenge |-> ch, credId |-> Wrap(B64Encode(k), d), key |-> k,
      userHandle |-> IF h THEN HandleOf(k) ELSE NoUserId, counter |-> n] :
        ch \in {c.id : c \in challenges}, k \in keys, d \in depths, h \in handles,
        n \in counters}

\* A new request takes the first free request id.
IsNextIdle(r) ==
    /\ reqs[r].pc = "idle"
    /\ \A q \in ReqIds : q < r => reqs[q].pc # "idle"

Init ==
    /\ now = 0
    /\ Registered(RawA, RawC)
    /\ challenges = {}
    /\ issued = 0
    /\ reqs = [r \in ReqIds |-> IdleReq]
    /\ CanonIdle
    /\ StartIdle
    /\ OtpIdle
    /\ NoEvents

Next ==
    \/ \E username \in {"alice", "carol"} :
          issued < MaxChallenges /\ StartRegistration(username, "")
    \/ \E username \in {"alice", "bob", ""} :
          issued < MaxChallenges /\ StartAuthentication(username)
    \/ \E r \in ReqIds, resp \in RegistrationResponses({RawD}, {"good", "bad"}) :
          IsNextIdle(r) /\ FinishRegistrationVerify(r, "alice", resp)
    \/ \E r \in ReqIds : FinishRegistrationCreate(r)
    \/ \E r \in ReqIds : FinishRegistrationMark(r)
    \/ \E r \in ReqIds : FinishRegistrationRespond(r)
    \/ \E r \in ReqIds, resp \in AuthenticationResponses({RawA, RawC}, {0}, {FALSE}, 1..MaxCounter) :
          IsNextIdle(r) /\ FinishAuthenticationResolve(r, resp)
    \/ \E r \in ReqIds : FinishAuthenticationVerify(r)
    \/ \E r \in ReqIds : FinishAuthenticationUpdateCounter(r)
    \/ \E r \in ReqIds : FinishAuthenticationMark(r)
    \/ \E r \in ReqIds : FinishAuthenticationRespond(r)
    \/ now < MaxTime /\ Tick

Spec == Init /\ [][Next]_vars

(***************************************************************************)
(* Specification of repeated and concurrent submissions of authentication  *)
(* responses of one authenticator                                          *)
(***************************************************************************)

InitReplay == Init

NextReplay ==
    \/ \E username \in {"alice", ""} :
          issued < MaxChallenges /\ StartAuthentication(username)
    \/ \E r \in ReqIds, resp \in AuthenticationResponses({RawA}, {0}, {FALSE}, {0, 1}) :
          IsNextIdle(r) /\ FinishAuthenticationResolve(r, resp)
    \/ \E r \in ReqIds : FinishAuthenticationVerify(r)
    \/ \E r \in ReqIds : FinishAuthenticationUpdateCounter(r)
    \/ \E r \in ReqIds : FinishAuthenticationMark(r)
    \/ \E r \in ReqIds : FinishAuthenticationRespond(r)

SpecReplay == InitReplay /\ [][NextReplay]_vars

(***************************************************************************)
(* Specification of challenge expiry: one completion at a time, the clock  *)
(* running past the expiry of the challenges, the purge at any time        *)
(***************************************************************************)

InitExpiry == Init

NextExpiry ==
    \/ \E username \in {"alice", "bob"} :
          issued < MaxExpiryChallenges /\ StartRegistration(username, "")
    \/ \E username \in {""} :
          issued < MaxExpiryChallenges /\ StartAuthentication(username)
    \/ \E resp \in RegistrationResponses({RawD}, {"good"}) :
          reqs[1].pc = "idle" /\ FinishRegistrationVerify(1, "alice", resp)
    \/ FinishRegistrationCreate(1)
    \/ FinishRegistrationMark(1)
    \/ FinishRegistrationRespond(1)
    \/ \E resp \in AuthenticationResponses({RawA}, {0}, {FALSE}, {1}) :
          reqs[1].pc = "idle" /\ FinishAuthenticationResolve(1, resp)
    \/ FinishAuthenticationVerify(1)
    \/ FinishAuthenticationUpdateCounter(1)
    \/ FinishAuthenticationMark(1)
    \/ FinishAuthenticationRespond(1)
    \/ now < ExpirationMinutes + MaxTime /\ Tick
    \/ CleanupExpiredChallenges

SpecExpiry == InitExpiry /\ [][NextExpiry]_vars

(***************************************************************************)
(* Specification of the credential lookup: identifiers in single and       *)
(* double encoding, one authentication at a time                           *)
(***************************************************************************)

InitLadder ==
    /\ now = 0
    /\ \E ra \in {RawA, RawC} : Registered(ra, RawB)
    /\ challenges = {}
    /\ issued = 0
    /\ reqs = [r \in ReqIds |-> IdleReq]
    /\ CanonIdle
    /\ StartIdle
    /\ OtpIdle
    /\ NoEvents

NextLadder ==
    \/ \E username \in {"alice", "bob", ""} :
          issued < MaxChallenges /\ StartAuthentication(username)
    \/ \E resp \in AuthenticationResponses({RawA, RawB}, 0..MaxLadderWrap, {TRUE, FALSE}, 1..MaxCounter) :
          reqs[1].pc = "idle" /\ FinishAuthenticationResolve(1, resp)
    \/ FinishAuthenticationVerify(1)
    \/ FinishAuthenticationUpdateCounter(1)
    \/ FinishAuthenticationMark(1)
    \/ FinishAuthenticationRespond(1)

SpecLadder == InitLadder /\ [][NextLadder]_vars

(***************************************************************************)
(* Specification of the OTP fallback: tickets for a registration and for   *)
(* an authentication, verify requests with right and wrong codes and       *)
(* targets, one after the other and concurrently                           *)
(***************************************************************************)

\* A new verify request takes the first free request id.
IsNextIdleOtp(q) ==
    /\ otpReqs[q].pc = "idle"
    /\ \A p \in OtpReqIds : p < q => otpReqs[p].pc # "idle"

OtpInFlight == {q \in OtpReqIds : otpReqs[q].pc \notin {"idle", "done"}}

\* The ids of the tickets sent so far.
OtpIds == 1..otpIssued

InitOtp == Init

NextOtp ==
    \/ \E otp \in {"123456"} :
          /\ otpIssued < MaxTickets
          /\ SendRegistrationOTP("carol", "carol@example.com", "", "email", otp)
    \/ \E otp \in {"123456"} :
          otpIssued < MaxTickets /\ SendAuthenticationOTP("alice", "", "", "sms", otp)
    \/ \E q \in OtpReqIds, otpId \in OtpIds, otp \in Codes, username \in {"carol", "alice"} :
          /\ IsNextIdleOtp(q)
          /\ Cardinality(OtpInFlight) < MaxOtpInFlight
          /\ OtpVerify(q, "verifyRegistrationOTP", otpId, otp, username)
    \/ \E q \in OtpReqIds, otpId \in OtpIds, otp \in Codes, username \in {"carol", "alice"} :
          /\ IsNextIdleOtp(q)
          /\ Cardinality(OtpInFlight) < MaxOtpInFlight
          /\ OtpVerify(q, "verifyAuthenticationOTP", otpId, otp, username)
    \/ \E q \in OtpReqIds : OtpLogFailure(q)
    \/ \E q \in OtpReqIds : OtpRegistrationFindUser(q)
    \/ \E q \in OtpReqIds : OtpRegistrationCreateUser(q)
    \/ \E q \in OtpReqIds : OtpAuthenticationFindUser(q)
    \/ \E q \in OtpReqIds : OtpAuthenticationIncrement(q)
    \/ \E q \in OtpReqIds : OtpComplete(q)

SpecOtp == InitOtp /\ [][NextOtp]_vars

(***************************************************************************)
(* Specification of the OTP fallback with one verify request at a time     *)
(***************************************************************************)

InitOtpSequence == Init

NextOtpSequence ==
    \/ \E otp \in {"123456"} :
          /\ otpIssued < MaxTickets
          /\ SendRegistrationOTP("carol", "carol@example.com", "", "email", otp)
    \/ \E otp \in {"123456"} :
          otpIssued < MaxTickets /\ SendAuthenticationOTP("alice", "", "", "sms", otp)
    \/ \E q \in OtpReqIds, otpId \in OtpIds, otp \in Codes :
          /\ IsNextIdleOtp(q)
          /\ OtpInFlight = {}
          /\ OtpVerify(q, "verifyRegistrationOTP", otpId, otp, "carol")
    \/ \E q \in OtpReqIds, otpId \in OtpIds, otp \in Codes :
          /\ IsNextIdleOtp(q)
          /\ OtpInFlight = {}
          /\ OtpVerify(q, "verifyAuthenticationOTP", otpId, otp, "alice")
    \/ \E q \in OtpReqIds : OtpLogFailure(q)
    \/ \E q \in OtpReqIds : OtpRegistrationFindUser(q)
    \/ \E q \in OtpReqIds : OtpRegistrationCreateUser(q)
    \/ \E q \in OtpReqIds : OtpAuthenticationFindUser(q)
    \/ \E q \in OtpReqIds : OtpAuthenticationIncrement(q)
    \/ \E q \in OtpReqIds : OtpComplete(q)

SpecOtpSequence == InitOtpSequence /\ [][NextOtpSequence]_vars

(***************************************************************************)
(* Specification of OTP expiry: tickets sent in the first minutes, one      *)
(* verify request at a time, the clock running past the expiry of the      *)
(* tickets, the timers of storeOTP firing when due or later                *)
(***************************************************************************)

InitOtpExpiry == Init

NextOtpExpiry ==
    \/ \E otp \in {"123456"} :
          /\ otpIssued < MaxTickets
          /\ now < MaxTime
          /\ SendRegistrationOTP("carol", "carol@example.com", "", "email", otp)
    \/ \E otp \in {"123456"} :
          /\ otpIssued < MaxTickets
          /\ now < MaxTime
          /\ SendAuthenticationOTP("alice", "", "", "sms", otp)
    \/ \E q \in 1..MaxOtpExpiryRequests, otpId \in OtpIds, otp \in Codes :
          /\ IsNextIdleOtp(q)
          /\ OtpInFlight = {}
          /\ OtpVerify(q, "verifyRegistrationOTP", otpId, otp, "carol")
    \/ \E q \in 1..MaxOtpExpiryRequests, otpId \in OtpIds, otp \in Codes :
          /\ IsNextIdleOtp(q)
          /\ OtpInFlight = {}
          /\ OtpVerify(q, "verifyAuthenticationOTP", otpId, otp, "alice")
    \/ \E q \in OtpReqIds : OtpLogFailure(q)
    \/ \E q \in OtpReqIds : OtpRegistrationFindUser(q)
    \/ \E q \in OtpReqIds : OtpRegistrationCreateUser(q)
    \/ \E q \in OtpReqIds : OtpAuthenticationFindUser(q)
    \/ \E q \in OtpReqIds : OtpAuthenticationIncrement(q)
    \/ \E q \in OtpReqIds : OtpComplete(q)
    \/ \E timer \in otpTimers : OtpTimeout(timer)
    \/ now < OtpExpirationMinutes + MaxTime /\ Tick

SpecOtpExpiry == InitOtpExpiry /\ [][NextOtpExpiry]_vars

(***************************************************************************)
(* Specification of the users collection: registration starts in flight    *)
(* together, OTP registrations, authentication starts                      *)
(***************************************************************************)

\* A new startRegistration request takes the first free request id.
IsNextIdleStart(s) ==
    /\ regStarts[s].pc = "idle"
    /\ \A p \in StartIds : p < s => regStarts[p].pc # "idle"

InitUsers == Init

NextUsers ==
    \/ \E s \in StartIds, username \in {"carol", "dave"}, email \in {"", "bob@example.com"} :
          IsNextIdleStart(s) /\ StartRegistrationResolve(s, username, email)
    \/ \E s \in StartIds : StartRegistrationCreateUser(s)
    \/ \E username \in {"dave"} :
          /\ otpIssued < MaxTickets
          /\ SendRegistrationOTP(username, "bob@example.com", "", "email", "123456")
    \/ \E q \in 1..MaxUserOtpRequests, otpId \in OtpIds :
          /\ IsNextIdleOtp(q)
          /\ OtpVerify(q, "verifyRegistrationOTP", otpId, "123456", getOTP(otpId).username)
    \/ \E q \in OtpReqIds : OtpRegistrationFindUser(q)
    \/ \E q \in OtpReqIds : OtpRegistrationCreateUser(q)
    \/ \E q \in OtpReqIds : OtpComplete(q)

SpecUsers == InitUsers /\ [][NextUsers]_vars

(***************************************************************************)
(* Specification of the ceremony starts, for users with and without        *)
(* credentials                                                             *)
(***************************************************************************)

\* The handles of the startAuthentication requests: a user without
\* credentials (once created), users with one, an unknown handle, no handle.
AuthHandles == {"carol", "alice", "bob", "dave", ""}

InitStart == Init

NextStart ==
    \/ \E username \in {"carol", "alice"} :
          issued < MaxChallenges /\ StartRegistration(username, "")
    \/ \E username \in AuthHandles :
          issued < MaxChallenges /\ StartAuthentication(username)
    \/ now < MaxTime /\ Tick

SpecStart == InitStart /\ [][NextStart]_vars

(***************************************************************************)
(* Specification of the handles: registrations started and finished with   *)
(* a username and with an email as handle, with and without an email      *)
(***************************************************************************)

\* The handles of the requests: a username and an email.
Handles == {"carol", "carol@example.com"}

InitHandles == Init

NextHandles ==
    \/ \E s \in StartIds, username \in Handles, email \in {"", "carol@example.com"} :
          IsNextIdleStart(s) /\ StartRegistrationResolve(s, username, email)
    \/ \E s \in StartIds : StartRegistrationCreateUser(s)
    \/ \E username \in Handles :
          issued < MaxChallenges /\ StartAuthentication(username)
    \/ \E username \in Handles, resp \in RegistrationResponses({RawD}, {"good"}) :
          reqs[1].pc = "idle" /\ FinishRegistrationVerify(1, username, resp)
    \/ FinishRegistrationCreate(1)
    \/ FinishRegistrationMark(1)
    \/ FinishRegistrationRespond(1)

SpecHandles == InitHandles /\ [][NextHandles]_vars

(***************************************************************************)
(* Specification of the canonicalization function                          *)
(***************************************************************************)

\* Largest number of times an identifier is encoded again on the way.
MaxWrapDepth == 3

\* Longest identifier string that is not the encoding of a sample raw id.
MaxIdLen == 2

\* Characters of the other identifier strings: A a 0 - _ Y i
SampleChars == {65, 97, 48, 45, 95, 89, 105}

SampleRaws == {RawA, RawB, RawC, <<0>>, <<255, 254>>, <<1, 2, 3>>, <<97, 98>>}

CanonInputs ==
    {Wrap(B64Encode(raw), d) : raw \in SampleRaws, d \in 0..MaxWrapDepth}
    \cup UNION {[1..n -> SampleChars] : n \in 1..MaxIdLen}

InitCanon ==
    /\ canonIn \in CanonInputs
    /\ canonStage = 0
    /\ canonOut = << >>
    /\ now = 0
    /\ users = << >>
    /\ credentials = << >>
    /\ challenges = {}
    /\ issued = 0
    /\ reqs = [r \in ReqIds |-> IdleReq]
    /\ StartIdle
    /\ OtpIdle
    /\ NoEvents

\* const once = canonicalizeCredentialId(x).canonical
CanonicalizeInput ==
    /\ canonStage = 0
    /\ canonOut' = << canonicalizeCredentialId(canonIn) >>
    /\ canonStage' = 1
    /\ UNCHANGED <<canonIn, now, users, credentials, challenges, issued, reqs, startVars, otpVars,
                   securityEvents>>

\* const twice = canonicalizeCredentialId(once).canonical
CanonicalizeResult ==
    /\ canonStage = 1
    /\ canonOut' = Append(canonOut, canonicalizeCredentialId(canonOut[1]))
    /\ canonStage' = 2
    /\ UNCHANGED <<canonIn, now, users, credentials, challenges, issued, reqs, startVars, otpVars,
                   securityEvents>>

NextCanon == CanonicalizeInput \/ CanonicalizeResult

SpecCanon == InitCanon /\ [][NextCanon]_vars

(***************************************************************************)
(* Properties                                                              *)
(***************************************************************************)

Succeeded(r) == reqs[r].pc = "done" /\ reqs[r].result = "ok"

Stored(id) == \E c \in challenges : c.id = id

ChallengeById(id) == CHOOSE c \in challenges : c.id = id

\* C1: for every challenge, at most one finishRegistration /
\* finishAuthentication request that was verified against it completes
\* successfully, however the requests interleave.
C1_OneSuccessPerChallenge ==
    \A r1, r2 \in ReqIds :
        (r1 # r2 /\ Succeeded(r1) /\ Succeeded(r2)) => reqs[r1].found # reqs[r2].found

Marked(r) == reqs[r].markResult # "none"

\* The calls of markChallengeAsUsed(id) that returned true.
TrueCalls(id) ==
    {q \in ReqIds : Marked(q) /\ reqs[q].found = id /\ reqs[q].markResult = "true"}

C2_ExactlyOneTrue ==
    \A r \in ReqIds :
        Marked(r) =>
            /\ Cardinality(TrueCalls(reqs[r].found)) <= 1
            /\ Stored(reqs[r].found) => Cardinality(TrueCalls(reqs[r].found)) = 1

C2_UsedStaysUsed ==
    \A r \in ReqIds :
        (/\ reqs[r].pc = "markUsed"
         /\ reqs'[r].pc = "respond"
         /\ Stored(reqs[r].found)
         /\ ChallengeById(reqs[r].found).used) =>
            /\ reqs'[r].markResult = "false"
            /\ \E c \in challenges' : c.id = reqs[r].found /\ c.used

\* C2: of the calls of markChallengeAsUsed on the id of a stored challenge,
\* two of them or more, in any interleaving, exactly one returns true and the
\* others false; a call on a challenge that is used already returns false and
\* leaves it used.
C2_ConsumeOnce == []C2_ExactlyOneTrue /\ [][C2_UsedStaysUsed]_vars

\* Two requests have called markChallengeAsUsed on the same stored challenge.
C2_Witness ==
    \E r1, r2 \in ReqIds :
        /\ r1 # r2 /\ Marked(r1) /\ Marked(r2)
        /\ reqs[r1].found = reqs[r2].found
        /\ Stored(reqs[r1].found)
        /\ reqs[r1].markResult = "true" /\ reqs[r2].markResult = "false"

\* r2 carries the response that r1 was answered with success for, and
\* arrived after that answer.
IsReplay(r2, r1) ==
    /\ r1 # r2
    /\ r1 \in reqs[r2].startedAfter
    /\ reqs[r1].op = "finishAuthentication" /\ Succeeded(r1)
    /\ reqs[r2].op = "finishAuthentication"
    /\ reqs[r2].challenge = reqs[r1].challenge
    /\ reqs[r2].credId = reqs[r1].credId
    /\ reqs[r2].key = reqs[r1].key
    /\ reqs[r2].userHandle = reqs[r1].userHandle
    /\ reqs[r2].counter = reqs[r1].counter

\* C3 as stated: the replay of an accepted authentication response ends with
\* ChallengeInvalid, whatever other challenges are outstanding.
C3_ReplayChallengeInvalid ==
    \A r1, r2 \in ReqIds :
        (IsReplay(r2, r1) /\ reqs[r2].pc = "done") => reqs[r2].result = "ChallengeInvalid"

\* C3 amended: the replay of an accepted authentication response never gets
\* past the verification and is never verified against its own (consumed)
\* challenge: it ends with ChallengeInvalid when the lookup finds no valid
\* authentication challenge, and with VerificationFailed when the lookup finds
\* another one that is outstanding.
C3_ReplayFails ==
    \A r1, r2 \in ReqIds :
        IsReplay(r2, r1) =>
            /\ reqs[r2].pc \in {"findChallenge", "done"}
            /\ reqs[r2].found # reqs[r2].challenge
            /\ reqs[r2].pc = "done" =>
                  reqs[r2].result = IF reqs[r2].found = NoChallenge
                                    THEN "ChallengeInvalid" ELSE "VerificationFailed"

\* A replay was answered ChallengeInvalid, and (another behaviour) one was
\* answered VerificationFailed against another outstanding challenge.
C3_Witness ==
    \E r1, r2 \in ReqIds :
        /\ IsReplay(r2, r1) /\ reqs[r2].pc = "done"
        /\ reqs[r2].result = "VerificationFailed"
        /\ reqs[r2].found # NoChallenge

\* C4: the stored counter of a credential never decreases.
C4_CounterNeverDecreases ==
    [][\A i \in 1..Len(credentials) : credentials'[i].counter >= credentials[i].counter]_vars

SameRead(r1, r2) ==
    /\ reqs[r1].op = "finishAuthentication" /\ reqs[r2].op = "finishAuthentication"
    /\ reqs[r1].record # NoCred
    /\ reqs[r1].record = reqs[r2].record

\* C5: two finishAuthentication requests that read the same stored state of a
\* credential (same counter, same use count) do not both commit a counter update.
C5_StaleReadRejected ==
    \A r1, r2 \in ReqIds :
        (r1 # r2 /\ SameRead(r1, r2)) =>
            ~(reqs[r1].counterUpdated /\ reqs[r2].counterUpdated)

\* C6: when the stored counter of a credential is nonzero, a write to the
\* credential stores a counter strictly greater than it.
C6_NoCounterAtOrBelowStored ==
    [][\A i \in 1..Len(credentials) :
          (credentials[i].counter # 0 /\ credentials'[i] # credentials[i]) =>
              credentials'[i].counter > credentials[i].counter]_vars

\* C7: after a finishAuthentication that returned success, the stored record
\* of the asserted credential holds the verifier's new counter and a use
\* count one above the one read, whichever step of the lookup found it.
C7_CounterAndUseCountStored ==
    \A r \in ReqIds :
        (reqs[r].op = "finishAuthentication" /\ Succeeded(r)) =>
            /\ findById(reqs[r].record.id).counter = reqs[r].newCounter
            /\ findById(reqs[r].record.id).useCount = reqs[r].record.useCount + 1

TypeOf(op) == IF op = "finishRegistration" THEN "registration" ELSE "authentication"

\* The challenges a lookup of request r may return at this moment, stated
\* from the fields of the documents: of the type of the ceremony, of the user
\* of a registration, not used, not expired.
Eligible(c, r, op) ==
    /\ c.type = TypeOf(op)
    /\ op = "finishRegistration" => c.userId = reqs'[r].userId
    /\ ~c.used
    /\ now < c.expiresAt

LookedUp(r) ==
    /\ reqs[r].pc \in {"idle", "findChallenge"}
    /\ reqs'[r].pc \notin {"idle", "findChallenge"}
    /\ reqs'[r].result \notin {"UserNotFound", "CredentialNotFound"}

C8_Lookup ==
    \A r \in ReqIds :
        LookedUp(r) =>
            IF reqs'[r].found = NoChallenge
            THEN \A c \in challenges : ~Eligible(c, r, reqs'[r].op)
            ELSE \E c \in challenges :
                    /\ c.id = reqs'[r].found
                    /\ Eligible(c, r, reqs'[r].op)
                    /\ \A d \in challenges :
                          Eligible(d, r, reqs'[r].op) => d.createdAt <= c.createdAt

C9_ChallengeOfSubject ==
    \A r \in ReqIds :
        (/\ reqs[r].op = "finishAuthentication"
         /\ reqs[r].found # NoChallenge
         /\ Stored(reqs[r].found)) =>
            ChallengeById(reqs[r].found).userId \in {NoUserId, reqs[r].userId}

\* The raw bytes an identifier string denotes: its canonical form, decoded.
CanonBytes(id) == toBuffer(canonicalizeCredentialId(id))

\* C11: when a stored credential's canonical id decodes to the bytes the
\* canonical form of the lookup id of a finishAuthentication request decodes
\* to, the lookup ladder finds a credential (the request does not end with
\* CredentialNotFound), with or without a user handle in the response.
C11_LadderFindsCredential ==
    \A r \in ReqIds :
        (/\ reqs[r].op = "finishAuthentication"
         /\ \E i \in 1..Len(credentials) :
               CanonBytes(credentials[i].id) = CanonBytes(reqs[r].credId)) =>
            /\ reqs[r].record # NoCred
            /\ reqs[r].result # "CredentialNotFound"

\* C12: the credential the lookup ladder resolves a lookup id to has a stored
\* id whose canonical form decodes to the bytes the canonical form of the
\* lookup id decodes to.
C12_LadderMatchesSameBytes ==
    \A r \in ReqIds :
        (reqs[r].op = "finishAuthentication" /\ reqs[r].record # NoCred) =>
            CanonBytes(reqs[r].record.id) = CanonBytes(reqs[r].credId)

\* An OTP verify request arrives and runs up to its first await.
OtpArrives(q) == otpReqs[q].pc = "idle" /\ otpReqs'[q].pc # "idle"

InStore(store, id) == \E t \in store : t.id = id

\* The verify calls on a ticket that were answered with "Invalid OTP code".
FailedCalls(id) ==
    {p \in OtpReqIds : /\ otpReqs[p].otpId = id
                       /\ otpReqs[p].pc = "done"
                       /\ otpReqs[p].result = "CodeMismatch"}

AttemptsUsedUp(id) == Cardinality(FailedCalls(id)) >= OtpMaxAttempts

C13_DestroyedAfterMaxAttempts ==
    \A id \in OtpIds : AttemptsUsedUp(id) => ~InStore(otpStore, id)

C13_LaterVerifyNotFound ==
    \A q \in OtpReqIds :
        (OtpArrives(q) /\ AttemptsUsedUp(otpReqs'[q].otpId)) =>
            otpReqs'[q].result = "TicketNotFound"

\* C13 as stated: once OtpMaxAttempts verify calls on a ticket have failed the
\* ticket is gone from the store, and every later verify call with its id
\* fails as for a ticket that is not there (400 Invalid or expired OTP).
C13_TicketNotFoundAfterMaxAttempts ==
    []C13_DestroyedAfterMaxAttempts /\ [][C13_LaterVerifyNotFound]_vars

C13_LaterVerify ==
    \A q \in OtpReqIds :
        (OtpArrives(q) /\ AttemptsUsedUp(otpReqs'[q].otpId)) =>
            /\ otpReqs'[q].matched = "none"
            /\ ~InStore(otpStore', otpReqs'[q].otpId)
            /\ otpReqs'[q].result =
                  IF ~InStore(otpStore, otpReqs'[q].otpId) THEN "TicketNotFound"
                  ELSE IF IsExpired(getOTP(otpReqs'[q].otpId)) THEN "Expired"
                  ELSE "MaxAttemptsExceeded"

\* C13 amended: once OtpMaxAttempts verify calls on a ticket have failed, no
\* later verify call with its id compares a code or succeeds. The ticket stays
\* in the store until the next verify call (or its timer): that call destroys
\* it and fails with MaxAttemptsExceeded (429), or as expired when its expiry
\* has passed; every verify call after that fails as for a ticket that is not
\* there.
C13_MaxAttempts == [][C13_LaterVerify]_vars

\* After three failed calls a fourth was answered MaxAttemptsExceeded and a
\* fifth, with the right code and target, Invalid or expired OTP.
C13_Witness ==
    \E q1, q2 \in OtpReqIds :
        /\ otpReqs[q1].otpId = otpReqs[q2].otpId
        /\ AttemptsUsedUp(otpReqs[q1].otpId)
        /\ otpReqs[q1].pc = "done" /\ otpReqs[q1].result = "MaxAttemptsExceeded"
        /\ otpReqs[q2].pc = "done" /\ otpReqs[q2].result = "TicketNotFound"
        /\ otpReqs[q2].otp = "123456" /\ otpReqs[q2].username = "carol"
        /\ otpReqs[q2].op = "verifyRegistrationOTP"

\* The verify calls on a ticket that compared the submitted code with the
\* ticket's code.
Comparisons(id) ==
    {p \in OtpReqIds : otpReqs[p].otpId = id /\ otpReqs[p].matched # "none"}

C14_AtMostMaxComparisons ==
    \A id \in OtpIds : Cardinality(Comparisons(id)) <= OtpMaxAttempts

C14_CountedWhenCompared ==
    \A q \in OtpReqIds :
        (OtpArrives(q) /\ otpReqs'[q].matched # "none") =>
            /\ InStore(otpStore', otpReqs'[q].otpId)
            /\ \A t \in otpStore, u \in otpStore' :
                  (t.id = otpReqs'[q].otpId /\ u.id = t.id) =>
                      /\ t.attempts < OtpMaxAttempts
                      /\ u.attempts = t.attempts + 1

\* C14: however the verify calls on a ticket interleave, at most
\* OtpMaxAttempts of them compare the submitted code with the ticket's code,
\* and the step that compares leaves the incremented attempt counter in the
\* store, whatever the outcome of the comparison; so after OtpMaxAttempts
\* mismatches no call, with the right code or not, succeeds.
C14_AttemptsBound == []C14_AtMostMaxComparisons /\ [][C14_CountedWhenCompared]_vars

\* Three calls with a wrong code or target were counted, at least one of them
\* still in flight, and a call with the right code and target was refused.
C14_Witness ==
    \E id \in OtpIds, q \in OtpReqIds :
        /\ Cardinality({p \in Comparisons(id) : otpReqs[p].matched = "mismatch"}) = OtpMaxAttempts
        /\ \E p \in Comparisons(id) : otpReqs[p].pc # "done"
        /\ otpReqs[q].otpId = id
        /\ otpReqs[q].otp = "123456" /\ otpReqs[q].username = "alice"
        /\ otpReqs[q].op = "verifyAuthenticationOTP"
        /\ otpReqs[q].result = "MaxAttemptsExceeded"

\* C15: of the verify requests on one ticket that carry the right code and
\* target, in flight together or not, at most one is answered with success.
C15_OneSuccessPerTicket ==
    \A id \in OtpIds :
        Cardinality({q \in OtpReqIds : /\ otpReqs[q].otpId = id
                                       /\ otpReqs[q].pc = "done"
                                       /\ otpReqs[q].result = "ok"}) <= 1

C16_AfterSuccess ==
    \A p \in OtpReqIds :
        (/\ otpReqs[p].op = "verifyRegistrationOTP"
         /\ otpReqs[p].pc = "done" /\ otpReqs[p].result = "ok") =>
            /\ ~InStore(otpStore, otpReqs[p].otpId)
            /\ findByUsernameOrEmail(otpReqs[p].username) # NoUser

C16_LaterVerify ==
    \A p, q \in OtpReqIds :
        (/\ otpReqs[p].op = "verifyRegistrationOTP"
         /\ otpReqs[p].pc = "done" /\ otpReqs[p].result = "ok"
         /\ OtpArrives(q)
         /\ otpReqs'[q].otpId = otpReqs[p].otpId) =>
            /\ otpReqs'[q].pc = "done"
            /\ otpReqs'[q].result = "TicketNotFound"

\* C16: once verifyRegistrationOTP has answered a request with success, the
\* user of the handle exists and the ticket is gone from the store; every
\* verify request with the ticket's id that arrives later fails as for a
\* ticket that is not there, with the right code as with a wrong one.
C16_RegistrationOtpConsumed == []C16_AfterSuccess /\ [][C16_LaterVerify]_vars

\* The first verify call on a registration ticket succeeded and created the
\* user; a later call with the same id, code and target was refused.
C16_Witness ==
    \E p, q \in OtpReqIds :
        /\ p < q
        /\ otpReqs[p].op = "verifyRegistrationOTP" /\ otpReqs[p].result = "ok"
        /\ otpReqs[p].otpData.attempts = 1
        /\ otpReqs[p].otpData.type = "registration"
        /\ findByUsername("carol").id = otpReqs[p].userId
        /\ otpReqs[q].op = "verifyRegistrationOTP"
        /\ otpReqs[q].otpId = otpReqs[p].otpId
        /\ otpReqs[q].otp = otpReqs[p].otp /\ otpReqs[q].username = otpReqs[p].username
        /\ otpReqs[q].result = "TicketNotFound"

C17_ExpiredRefused ==
    \A q \in OtpReqIds :
        (/\ OtpArrives(q)
         /\ InStore(otpStore, otpReqs'[q].otpId)
         /\ now > getOTP(otpReqs'[q].otpId).expiresAt) =>
            /\ otpReqs'[q].pc = "done"
            /\ otpReqs'[q].result = "Expired"
            /\ otpReqs'[q].matched = "none"
            /\ otpStore' = {t \in otpStore : t.id # otpReqs'[q].otpId}

C17_ExpiryFixed ==
    \A t \in otpStore, u \in otpStore' : u.id = t.id => u.expiresAt = t.expiresAt

\* C17: a verify call that reads a ticket whose expiry time has passed, the
\* timer having removed it or not, compares no code and fails, with the right
\* code as with a wrong one; and no step, a failed attempt included, changes
\* the expiry time of a stored ticket.
C17_ExpiryAtRead == [][C17_ExpiredRefused /\ C17_ExpiryFixed]_vars

\* After a failed attempt on a registration ticket, a verify call with the
\* right code and target read the ticket past its expiry, still in the store,
\* and was refused.
C17_Witness ==
    \E p, q \in OtpReqIds :
        /\ otpReqs[p].otpId = otpReqs[q].otpId
        /\ otpReqs[p].pc = "done" /\ otpReqs[p].result = "CodeMismatch"
        /\ otpReqs[q].result = "Expired"
        /\ otpReqs[q].op = "verifyRegistrationOTP"
        /\ otpReqs[q].otpData.type = "registration"
        /\ otpReqs[q].otp = otpReqs[q].otpData.otp
        /\ otpReqs[q].username = otpReqs[q].otpData.username
        /\ otpReqs[q].otpData.attempts = 1

StartArrives(s) == regStarts[s].pc = "idle" /\ regStarts'[s].pc # "idle"

\* C18: a registration start whose handle resolves to no user and whose
\* email is the email of a stored user fails with Conflict (409); it creates
\* no user and stores no challenge.
C18_EmailConflict ==
    [][\A s \in StartIds :
          (/\ StartArrives(s)
           /\ findByUsernameOrEmail(regStarts'[s].username) = NoUser
           /\ regStarts'[s].email # ""
           /\ \E i \in 1..Len(users) : users[i].email = regStarts'[s].email) =>
              /\ regStarts'[s].pc = "done"
              /\ regStarts'[s].result = "Conflict"
              /\ users' = users
              /\ challenges' = challenges]_vars

\* A start for dave with the email that carol owns was answered Conflict.
C18_Witness ==
    \E s \in StartIds :
        /\ regStarts[s].pc = "done" /\ regStarts[s].result = "Conflict"
        /\ regStarts[s].username = "dave"
        /\ findByUsername("dave") = NoUser
        /\ findByEmail(regStarts[s].email).username = "carol"

\* C19: no two users have the same email, whatever the interleaving of
\* registration starts and OTP registration verifications.
C19_EmailUnique ==
    \A i, j \in 1..Len(users) :
        (i # j /\ users[i].email # "") => users[i].email # users[j].email

\* Two requests for different usernames with one email were in flight
\* together, both past the check of the email's owner: one created its user,
\* the insert of the other was refused.
C19_Witness ==
    \/ \E s \in StartIds :
          /\ regStarts[s].pc = "done" /\ regStarts[s].result = "Internal"
          /\ regStarts[s].email # ""
          /\ findByEmail(regStarts[s].email) # NoUser
          /\ findByEmail(regStarts[s].email).username # regStarts[s].username
          /\ findByUsername(regStarts[s].username) = NoUser
    \/ \E q \in OtpReqIds :
          /\ otpReqs[q].pc = "done" /\ otpReqs[q].result = "Internal"
          /\ findByEmail(otpReqs[q].otpData.email) # NoUser
          /\ findByEmail(otpReqs[q].otpData.email).username # otpReqs[q].username
          /\ findByUsername(otpReqs[q].username) = NoUser
          /\ \E s \in StartIds : regStarts[s].result = "ok"

NoCeremonyCompleted ==
    \A r \in ReqIds : reqs[r].pc = "idle" \/ (reqs[r].pc = "done" /\ reqs[r].result # "ok")

\* C21: as long as no ceremony has reached its final success step, the users
\* (each with its fields) and the credentials are those there were before
\* the ceremonies started.
C21_NoMutationBeforeSuccess == NoCeremonyCompleted => Registered(RawA, RawC)

\* The number of documents of the securityEvents collection grew in the step.
EventAppended == BagCardinality(securityEvents') > BagCardinality(securityEvents)

\* Request r of the finish handlers is answered in the step, with a result of `results`.
FinishAnswered(r, results) ==
    reqs[r].pc # "done" /\ reqs'[r].pc = "done" /\ reqs'[r].result \in results

\* Verify request q of the OTP handlers is answered in the step, with a result of `results`.
OtpAnswered(q, results) ==
    otpReqs[q].pc # "done" /\ otpReqs'[q].pc = "done" /\ otpReqs'[q].result \in results

\* C22: a completion that is answered ChallengeInvalid, CredentialNotFound or
\* MaxAttemptsExceeded has appended a security event by the time it is answered.
C22_ViolationsLogged ==
    [][(\/ \E r \in ReqIds : FinishAnswered(r, {"ChallengeInvalid", "CredentialNotFound"})
        \/ \E q \in OtpReqIds : OtpAnswered(q, {"MaxAttemptsExceeded"})) => EventAppended]_vars

\* C23: a finishRegistration or finishAuthentication that is answered
\* VerificationFailed, the verifier having raised an error or returned a
\* result that is not verified, has appended a security event of severity
\* medium or higher in the step that answers it.
C23_VerificationFailureLogged ==
    [][\A r \in ReqIds :
          FinishAnswered(r, {"VerificationFailed"}) =>
              \E e \in BagToSet(securityEvents') :
                  /\ e.severity \in {"medium", "high", "critical"}
                  /\ CopiesIn(e, securityEvents') > CopiesIn(e, securityEvents)]_vars

\* The ticket is in the store, has not expired and has attempts left.
IsLive(id) ==
    /\ InStore(otpStore, id)
    /\ ~(now > getOTP(id).expiresAt)
    /\ getOTP(id).attempts < getOTP(id).maxAttempts

\* The target a verify call must name for ticket t: the username of the ticket
\* for verifyRegistrationOTP, the identifier the ticket was requested with for
\* verifyAuthenticationOTP.
TargetOf(t, op) ==
    IF op = "verifyAuthenticationOTP" /\ t.identifier # "" THEN t.identifier ELSE t.username

\* A verify call arrives for a live ticket with another code or another
\* target: the ticket stays, its attempts one higher, the rest of it as it
\* was; no user is created or changed.
C24_MismatchCounted ==
    \A q \in OtpReqIds :
        (/\ OtpArrives(q)
         /\ IsLive(otpReqs'[q].otpId)
         /\ \/ getOTP(otpReqs'[q].otpId).otp # otpReqs'[q].otp
            \/ TargetOf(getOTP(otpReqs'[q].otpId), otpReqs'[q].op) # otpReqs'[q].username) =>
            /\ otpReqs'[q].result = "CodeMismatch"
            /\ otpReqs'[q].pc = "logFailure"
            /\ otpStore' = (otpStore \ {getOTP(otpReqs'[q].otpId)}) \cup
                  {[getOTP(otpReqs'[q].otpId) EXCEPT !.attempts = @ + 1]}
            /\ users' = users

\* The rest of a call that did not match: it is answered CodeMismatch, and
\* changes neither the store nor the users.
C24_MismatchAnswered ==
    \A q \in OtpReqIds :
        (otpReqs[q].matched = "mismatch" /\ otpReqs'[q] # otpReqs[q]) =>
            /\ otpReqs'[q].pc = "done"
            /\ otpReqs'[q].result = "CodeMismatch"
            /\ otpStore' = otpStore
            /\ users' = users

\* C24: a verify call on a live ticket whose code or target does not match
\* fails with CodeMismatch, adds one to the attempts of the ticket and leaves
\* it in the store with its code and its expiry; it creates no user and
\* changes no counter of a user.
C24_CodeMismatch == [][C24_MismatchCounted /\ C24_MismatchAnswered]_vars

\* A call with the right code and another target, and a call with another
\* code, were both answered CodeMismatch; the ticket is in the store with two
\* attempts, its code and its expiry.
C24_Witness ==
    \E p, q \in OtpReqIds, t \in otpStore :
        /\ otpReqs[p].pc = "done" /\ otpReqs[p].result = "CodeMismatch"
        /\ otpReqs[q].pc = "done" /\ otpReqs[q].result = "CodeMismatch"
        /\ otpReqs[p].otpId = t.id /\ otpReqs[q].otpId = t.id
        /\ otpReqs[p].otp = t.otp
        /\ TargetOf(t, otpReqs[p].op) # otpReqs[p].username
        /\ otpReqs[q].otp # t.otp
        /\ t.attempts = 2
        /\ t.expiresAt = OtpExpirationMinutes
        /\ Registered(RawA, RawC)

\* C25: the verify call that is answered MaxAttemptsExceeded, for a
\* registration as for an authentication, has removed the ticket from the
\* store and has appended a security event of severity high.
C25_MaxAttemptsHighSeverity ==
    [][\A q \in OtpReqIds :
          OtpAnswered(q, {"MaxAttemptsExceeded"}) =>
              /\ ~InStore(otpStore', otpReqs'[q].otpId)
              /\ \E e \in BagToSet(securityEvents') :
                    /\ e.severity = "high"
                    /\ CopiesIn(e, securityEvents') > CopiesIn(e, securityEvents)]_vars

HoldsOwnChallenge(r) ==
    /\ reqs[r].op = "finishAuthentication"
    /\ reqs[r].pc = "findChallenge"
    /\ reqs[r].key = reqs[r].record.publicKey
    /\ CounterAdvanced(reqs[r].record.counter, reqs[r].counter)
    /\ \E c \in challenges :
          /\ c.id = reqs[r].challenge
          /\ c.type = "authentication"
          /\ c.userId = reqs[r].record.userId
          /\ c.used = FALSE
          /\ c.expiresAt > now
          /\ \E d \in challenges :
                /\ d.type = "authentication"
                /\ d.userId \notin {NoUserId, c.userId}
                /\ d.createdAt > c.createdAt

\* C27: a valid response of user A to an unused, unexpired authentication
\* challenge of A is verified, whatever authentication challenges were issued
\* to other users since A's start.
C27_OwnChallengeAccepted ==
    [][\A r \in ReqIds :
          (HoldsOwnChallenge(r) /\ reqs'[r].pc # "findChallenge") =>
              reqs'[r].pc = "updateCounter"]_vars

\* C28: an authentication challenge issued to a user is marked used only by
\* authentication requests whose credential belongs to that user.
C28_ConsumedByOwner ==
    \A r \in ReqIds :
        (/\ reqs[r].op = "finishAuthentication"
         /\ Marked(r)
         /\ Stored(reqs[r].found)
         /\ ChallengeById(reqs[r].found).userId # NoUserId) =>
            ChallengeById(reqs[r].found).userId = reqs[r].record.userId

\* C29: the handle of a registration start that was answered with a user
\* resolves to that user from then on.
C29_HandleResolvesToUser ==
    \A s \in StartIds :
        (regStarts[s].pc = "done" /\ regStarts[s].result = "ok") =>
            findByUsernameOrEmail(regStarts[s].username).id = regStarts[s].userId

\* C30: a registration finish with the handle of an answered registration
\* start resolves the user that start resolved or created.
C30_FinishResolvesStartUser ==
    [][\A r \in ReqIds, s \in StartIds :
          (/\ reqs[r].pc = "idle"
           /\ reqs'[r].op = "finishRegistration"
           /\ regStarts[s].pc = "done" /\ regStarts[s].result = "ok"
           /\ regStarts[s].username = reqs'[r].username) =>
              reqs'[r].userId = regStarts[s].userId]_vars

\* C10: canonicalizeCredentialId applied to its own result returns that result.
C10_Idempotent == canonStage = 2 => canonOut[2] = canonOut[1]

====
